---------------------------- MODULE Spec2Model ----------------------------
(***************************************************************************)
(* Model of the pasta-factory order service:                               *)
(*   pkg/pasta  (src/pkg/pasta/pasta.go)   pasta line module               *)
(*   pkg/pizza  (src/unnamed/part_008)     pizza line module               *)
(*   api        (src/api/handlers.go)      CreateOrder HTTP handler        *)
(*                                                                         *)
(* float64 prices are modelled as exact fixed-point numbers counted in     *)
(* thousandths (1.0 is 1000); IEEE-754 rounding is not modelled.           *)
(* time.Time values are records [date, tick]; tick counts clock ticks      *)
(* since midnight, TicksPerSecond of them to the second.                   *)
(***************************************************************************)
EXTENDS Integers, Sequences, FiniteSets, TLC

VARIABLES
    clock,      \* wall clock: ticks elapsed since the start of the behaviour
    call,       \* a client of the line modules: the order it made last and
                \* what it computed from it
    handler     \* the invocations of api.CreateOrder, one record per invocation

vars == <<clock, call, handler>>

---------------------------------------------------------------------------
(* Bounds of the model                                                     *)

\* how far around each quantity limit the inputs are enumerated
Margin == 1
\* clock ticks per second (sub-second resolution of time.Now)
TicksPerSecond == 2
\* the clock advances at most this many ticks in a behaviour
MaxTicks == 4
\* second of the day at which behaviours start (09:59:58)
StartSecond == 35998
\* number of CreateOrder invocations of the model
NumHandlers == 2

---------------------------------------------------------------------------
(* Program constants                                                       *)

Spaghetti == "spaghetti"
Penne == "penne"
Fettuccine == "fettuccine"

Margherita == "margherita"
Pepperoni == "pepperoni"
Hawaiian == "hawaiian"

MinWeightGrams == 100
MaxWeightGrams == 5000
MinSizeInch == 8
MaxSizeInch == 24

StatusBadRequest == 400
StatusOK == 200

\* float64: the fixed-point unit, 1.0
One == 1000
\* the float64 constants 0.01, 1.2 (pasta), 1.0, 1.2 and 1.3 (pizza)
PastaPricePerGram == 10
FettuccinePremium == 1200
PizzaPricePerInch == 1000
PepperoniPremium == 1200
HawaiianPremium == 1300

\* float64(n)
ToFloat(n) == n * One
\* a * b on float64
FMul(a, b) == (a * b) \div One
\* a + b on float64
FAdd(a, b) == a + b

---------------------------------------------------------------------------
(* Go values                                                               *)

\* the nil *Order and the nil error
NilOrder == [nil |-> TRUE]
NilErr == [nil |-> TRUE]
\* errors.New(msg)
NewError(msg) == [msg |-> msg]

\* the date of the model's clock
Today == <<2025, 3, 26>>
\* time.Time{}: the zero time, January 1, year 1, 00:00:00
ZeroTime == [date |-> <<1, 1, 1>>, tick |-> 0]
\* t.IsZero()
IsZero(t) == t = ZeroTime
\* time.Now() when the clock stands at c
Now(c) == [date |-> Today, tick |-> StartSecond * TicksPerSecond + c]

Digit(d) == <<"0", "1", "2", "3", "4", "5", "6", "7", "8", "9">>[d + 1]

RECURSIVE Pad(_, _)
\* n in decimal, zero-padded to width digits
Pad(n, width) ==
    IF width = 0 THEN "" ELSE Pad(n \div 10, width - 1) \o Digit(n % 10)

\* the clock second of t, counted from midnight
SecondOf(t) == t.tick \div TicksPerSecond

\* mutant: the layout stops at the minute, the seconds are always 00
Format_NoSeconds(t) ==
    LET s == SecondOf(t)
    IN  Pad(t.date[1], 4) \o Pad(t.date[2], 2) \o Pad(t.date[3], 2)
        \o Pad(s \div 3600, 2) \o Pad((s \div 60) % 60, 2) \o "00"

\* t.Format("20060102150405"): YYYYMMDDhhmmss
Format(t) ==
    LET s == SecondOf(t)
    IN  Pad(t.date[1], 4) \o Pad(t.date[2], 2) \o Pad(t.date[3], 2)
        \o Pad(s \div 3600, 2) \o Pad((s \div 60) % 60, 2) \o Pad(s % 60, 2)

---------------------------------------------------------------------------
(* pkg/pasta                                                               *)

\* mutant: the lower limit is exclusive
PastaNewOrderErr_ExclusiveMin(pastaType, weightGrams) ==
    IF weightGrams <= MinWeightGrams
    THEN NewError("minimum order is 100 grams")
    ELSE IF weightGrams > MaxWeightGrams
    THEN NewError("maximum order is 5000 grams")
    ELSE IF pastaType \notin {Spaghetti, Penne, Fettuccine}
    THEN NewError("invalid pasta type")
    ELSE NilErr

\* mutant: the two limit messages are exchanged
PastaNewOrderErr_SwappedMessages(pastaType, weightGrams) ==
    IF weightGrams < MinWeightGrams
    THEN NewError("maximum order is 5000 grams")
    ELSE IF weightGrams > MaxWeightGrams
    THEN NewError("minimum order is 100 grams")
    ELSE IF pastaType \notin {Spaghetti, Penne, Fettuccine}
    THEN NewError("invalid pasta type")
    ELSE NilErr

\* mutant: the kind is checked before the weight limits
PastaNewOrderErr_KindFirst(pastaType, weightGrams) ==
    IF pastaType \notin {Spaghetti, Penne, Fettuccine}
    THEN NewError("invalid pasta type")
    ELSE IF weightGrams < MinWeightGrams
    THEN NewError("minimum order is 100 grams")
    ELSE IF weightGrams > MaxWeightGrams
    THEN NewError("maximum order is 5000 grams")
    ELSE NilErr

\* the validation of pasta.NewOrder: the error it returns, NilErr if none
PastaNewOrderErr(pastaType, weightGrams) ==
    IF weightGrams < MinWeightGrams
    THEN NewError("minimum order is 100 grams")
    ELSE IF weightGrams > MaxWeightGrams
    THEN NewError("maximum order is 5000 grams")
    ELSE IF pastaType \notin {Spaghetti, Penne, Fettuccine}
    THEN NewError("invalid pasta type")
    ELSE NilErr

\* pasta.generateOrderID, reading the clock at c
PastaGenerateOrderID(c) == Format(Now(c))

\* mutant: CreatedAt is left out of the literal
PastaNewOrder_NoCreatedAt(id, pastaType, weightGrams, c) ==
    [ID |-> id, PastaType |-> pastaType, WeightGrams |-> weightGrams,
     Status |-> "pending", CreatedAt |-> ZeroTime]

\* the Order literal pasta.NewOrder returns: id was generated first, then
\* time.Now() read the clock at c
PastaNewOrder(id, pastaType, weightGrams, c) ==
    [ID |-> id, PastaType |-> pastaType, WeightGrams |-> weightGrams,
     Status |-> "pending", CreatedAt |-> Now(c)]

\* mutant: penne takes the premium too
PastaCalculatePrice_PennePremium(o) ==
    LET basePrice == FMul(ToFloat(o.WeightGrams), PastaPricePerGram)
    IN  IF o.PastaType \in {Fettuccine, Penne}
        THEN FMul(basePrice, FettuccinePremium)
        ELSE basePrice

\* (*pasta.Order).CalculatePrice
PastaCalculatePrice(o) ==
    LET basePrice == FMul(ToFloat(o.WeightGrams), PastaPricePerGram)
    IN  IF o.PastaType = Fettuccine
        THEN FMul(basePrice, FettuccinePremium)
        ELSE basePrice

---------------------------------------------------------------------------
(* pkg/pizza                                                               *)

\* mutant: hawaiian is accepted, as the declared pizza types suggest
PizzaNewOrderErr_AcceptsHawaiian(pizzaType, sizeInch) ==
    IF sizeInch < MinSizeInch
    THEN NewError("minimum size is 8 inches")
    ELSE IF sizeInch > MaxSizeInch
    THEN NewError("maximum size is 24 inches")
    ELSE IF pizzaType \notin {Margherita, Pepperoni, Hawaiian}
    THEN NewError("invalid pizza type")
    ELSE NilErr

\* mutant: the upper limit is exclusive
PizzaNewOrderErr_ExclusiveMax(pizzaType, sizeInch) ==
    IF sizeInch < MinSizeInch
    THEN NewError("minimum size is 8 inches")
    ELSE IF sizeInch >= MaxSizeInch
    THEN NewError("maximum size is 24 inches")
    ELSE IF pizzaType \notin {Margherita, Pepperoni}
    THEN NewError("invalid pizza type")
    ELSE NilErr

\* mutant: hawaiian stands in the switch where pepperoni does
PizzaNewOrderErr_HawaiianListed(pizzaType, sizeInch) ==
    IF sizeInch < MinSizeInch
    THEN NewError("minimum size is 8 inches")
    ELSE IF sizeInch > MaxSizeInch
    THEN NewError("maximum size is 24 inches")
    ELSE IF pizzaType \notin {Margherita, Hawaiian}
    THEN NewError("invalid pizza type")
    ELSE NilErr

\* the validation of pizza.NewOrder: the error it returns, NilErr if none
PizzaNewOrderErr(pizzaType, sizeInch) ==
    IF sizeInch < MinSizeInch
    THEN NewError("minimum size is 8 inches")
    ELSE IF sizeInch > MaxSizeInch
    THEN NewError("maximum size is 24 inches")
    ELSE IF pizzaType \notin {Margherita, Pepperoni}
    THEN NewError("invalid pizza type")
    ELSE NilErr

\* pizza.generateOrderID, reading the clock at c
PizzaGenerateOrderID(c) == Format(Now(c))

\* the Order literal pizza.NewOrder returns
PizzaNewOrder(id, pizzaType, sizeInch, c) ==
    [ID |-> id, PizzaType |-> pizzaType, SizeInch |-> sizeInch,
     Status |-> "pending", CreatedAt |-> Now(c)]

\* mutant: the hawaiian case is missing
PizzaCalculatePrice_NoHawaiian(o) ==
    LET basePrice == FMul(ToFloat(o.SizeInch), PizzaPricePerInch)
    IN  IF o.PizzaType = Pepperoni
        THEN FMul(basePrice, PepperoniPremium)
        ELSE basePrice

\* (*pizza.Order).CalculatePrice
PizzaCalculatePrice(o) ==
    LET basePrice == FMul(ToFloat(o.SizeInch), PizzaPricePerInch)
    IN  IF o.PizzaType = Pepperoni
        THEN FMul(basePrice, PepperoniPremium)
        ELSE IF o.PizzaType = Hawaiian
        THEN FMul(basePrice, HawaiianPremium)
        ELSE basePrice

\* mutant: pepperoni counts as cringe too
CalculateCringeLevel_Pepperoni(o) ==
    IF o.PizzaType \in {Hawaiian, Pepperoni} THEN o.SizeInch ELSE 0

\* (*pizza.Order).CalculateCringeLevel
CalculateCringeLevel(o) ==
    IF o.PizzaType = Hawaiian THEN o.SizeInch ELSE 0

---------------------------------------------------------------------------
(* Inputs                                                                  *)

\* the quantities within Margin of the limits lo and hi
Around(lo, hi) == ((lo - Margin)..(lo + Margin)) \cup ((hi - Margin)..(hi + Margin))

PastaTypeInputs == {Spaghetti, Penne, Fettuccine, "lasagna", ""}
WeightInputs == Around(MinWeightGrams, MaxWeightGrams) \cup {-100, 0, 50, 300, 500, 1000, 6000}
PizzaTypeInputs == {Margherita, Pepperoni, Hawaiian, "calzone", ""}
SizeInputs == Around(MinSizeInch, MaxSizeInch) \cup {-1, 0, 12, 14}

---------------------------------------------------------------------------
(* A client of the line modules                                            *)

\* no value returned yet
NoValue == [none |-> TRUE]
\* a returned value
Value(v) == [v |-> v]

\* the client before its first call
CallIdle ==
    [pc |-> "idle", fn |-> "none", kind |-> "", quantity |-> 0, id |-> "",
     order |-> NilOrder, err |-> NilErr, price |-> NoValue, cringe |-> NoValue,
     sibling |-> ""]

\* the pizza type of the pizza order the client holds, "" if it holds none: a new
\* pizza order is kept beside it, as a sibling line
HeldPizzaType ==
    IF call.fn \in {"pizza.NewOrder", "pizza.Order{}"} /\ call.order # NilOrder
    THEN call.order.PizzaType
    ELSE ""

\* the handlers take no part in the behaviours of the line modules' client
HandlerUnused == [pc |-> "unused"]

\* the clock advances by one tick
Tick ==
    /\ clock < MaxTicks
    /\ clock' = clock + 1
    /\ UNCHANGED <<call, handler>>

\* pasta.NewOrder(pastaType, weightGrams) up to generateOrderID()
PastaCallNewOrder(pastaType, weightGrams) ==
    /\ call.pc \in {"idle", "done"}
    /\ LET err == PastaNewOrderErr(pastaType, weightGrams)
           args == [CallIdle EXCEPT !.fn = "pasta.NewOrder", !.kind = pastaType,
                                    !.quantity = weightGrams]
       IN  call' =
               IF err # NilErr
               THEN [args EXCEPT !.pc = "done", !.err = err]
               ELSE [args EXCEPT !.pc = "stamp", !.id = PastaGenerateOrderID(clock)]
    /\ UNCHANGED <<clock, handler>>

\* pasta.NewOrder from time.Now() to its return
PastaCallReturn ==
    /\ call.pc = "stamp"
    /\ call.fn = "pasta.NewOrder"
    /\ call' =
           [call EXCEPT
               !.pc = "done",
               !.order = PastaNewOrder(call.id, call.kind, call.quantity, clock)]
    /\ UNCHANGED <<clock, handler>>

\* mutant: CalculatePrice marks the order as priced
PastaCallCalculatePrice_MarksPriced ==
    /\ call.pc = "done"
    /\ call.fn = "pasta.NewOrder"
    /\ call.order # NilOrder
    /\ call' = [call EXCEPT !.price = Value(PastaCalculatePrice(call.order)),
                            !.order.Status = "priced"]
    /\ UNCHANGED <<clock, handler>>

\* order.CalculatePrice() on the order pasta.NewOrder returned
PastaCallCalculatePrice ==
    /\ call.pc = "done"
    /\ call.fn = "pasta.NewOrder"
    /\ call.order # NilOrder
    /\ call' = [call EXCEPT !.price = Value(PastaCalculatePrice(call.order))]
    /\ UNCHANGED <<clock, handler>>

\* pizza.NewOrder(pizzaType, sizeInch) up to generateOrderID()
PizzaCallNewOrder(pizzaType, sizeInch) ==
    /\ call.pc \in {"idle", "done"}
    /\ LET err == PizzaNewOrderErr(pizzaType, sizeInch)
           args == [CallIdle EXCEPT !.fn = "pizza.NewOrder", !.kind = pizzaType,
                                    !.quantity = sizeInch,
                                    !.sibling = HeldPizzaType]
       IN  call' =
               IF err # NilErr
               THEN [args EXCEPT !.pc = "done", !.err = err]
               ELSE [args EXCEPT !.pc = "stamp", !.id = PizzaGenerateOrderID(clock)]
    /\ UNCHANGED <<clock, handler>>

\* pizza.NewOrder from time.Now() to its return
PizzaCallReturn ==
    /\ call.pc = "stamp"
    /\ call.fn = "pizza.NewOrder"
    /\ call' =
           [call EXCEPT
               !.pc = "done",
               !.order = PizzaNewOrder(call.id, call.kind, call.quantity, clock)]
    /\ UNCHANGED <<clock, handler>>

\* the composite literal &pizza.Order{PizzaType: pizzaType, SizeInch: sizeInch}:
\* the fields of Order are exported, the other fields keep their zero values
PizzaOrderLiteral(pizzaType, sizeInch) ==
    /\ call.pc \in {"idle", "done"}
    /\ call' =
           [CallIdle EXCEPT
               !.pc = "done", !.fn = "pizza.Order{}",
               !.kind = pizzaType, !.quantity = sizeInch,
               !.sibling = HeldPizzaType,
               !.order = [ID |-> "", PizzaType |-> pizzaType, SizeInch |-> sizeInch,
                          Status |-> "", CreatedAt |-> ZeroTime]]
    /\ UNCHANGED <<clock, handler>>

\* order.CalculatePrice() on the pizza order held
PizzaCallCalculatePrice ==
    /\ call.pc = "done"
    /\ call.fn \in {"pizza.NewOrder", "pizza.Order{}"}
    /\ call.order # NilOrder
    /\ call' = [call EXCEPT !.price = Value(PizzaCalculatePrice(call.order))]
    /\ UNCHANGED <<clock, handler>>

\* order.CalculateCringeLevel() on the pizza order held
PizzaCallCalculateCringeLevel ==
    /\ call.pc = "done"
    /\ call.fn \in {"pizza.NewOrder", "pizza.Order{}"}
    /\ call.order # NilOrder
    /\ call' = [call EXCEPT !.cringe = Value(CalculateCringeLevel(call.order))]
    /\ UNCHANGED <<clock, handler>>

InitLine ==
    /\ clock = 0
    /\ call = CallIdle
    /\ handler = [p \in 1..NumHandlers |-> HandlerUnused]

NextLine ==
    \/ Tick
    \/ \E k \in PastaTypeInputs, w \in WeightInputs : PastaCallNewOrder(k, w)
    \/ PastaCallReturn
    \/ PastaCallCalculatePrice
    \/ \E k \in PizzaTypeInputs, s \in SizeInputs : PizzaCallNewOrder(k, s)
    \/ PizzaCallReturn
    \/ \E k \in PizzaTypeInputs, s \in SizeInputs : PizzaOrderLiteral(k, s)
    \/ PizzaCallCalculatePrice
    \/ PizzaCallCalculateCringeLevel

\* the line modules used directly by a client
SpecLine == InitLine /\ [][NextLine]_vars

---------------------------------------------------------------------------
(* api: JSON                                                               *)

\* the values a field of a JSON object can have; Absent: the key is missing
Absent == [t |-> "absent"]
JNull == [t |-> "null"]
JStr(str) == [t |-> "string", v |-> str]
JNum(n) == [t |-> "number", v |-> n]

\* OrderRequest{} and OrderResponse{}: the zero values
ZeroRequest ==
    [PastaType |-> "", WeightGrams |-> 0, PizzaType |-> "", PizzaSizeInch |-> 0]
ZeroResponse ==
    [OrderID |-> "", PastaType |-> "", WeightGrams |-> 0, Price |-> 0, Status |-> "",
     PizzaType |-> "", PizzaSizeInch |-> 0, PizzaPrice |-> 0]

\* mutant: null is refused for a string field
DecodeString_RejectsNull(j, old) ==
    CASE j.t = "absent" -> [ok |-> TRUE, v |-> old]
      [] j.t = "string" -> [ok |-> TRUE, v |-> j.v]
      [] OTHER -> [ok |-> FALSE, v |-> old]

\* encoding/json decoding the JSON value j into a string field holding old:
\* a missing key and null leave the field alone, any other non-string fails
DecodeString(j, old) ==
    CASE j.t \in {"absent", "null"} -> [ok |-> TRUE, v |-> old]
      [] j.t = "string" -> [ok |-> TRUE, v |-> j.v]
      [] OTHER -> [ok |-> FALSE, v |-> old]

\* encoding/json decoding the JSON value j into an int field holding old
DecodeInt(j, old) ==
    CASE j.t \in {"absent", "null"} -> [ok |-> TRUE, v |-> old]
      [] j.t = "number" -> [ok |-> TRUE, v |-> j.v]
      [] OTHER -> [ok |-> FALSE, v |-> old]

\* mutant: a field of the wrong JSON type is skipped instead of failing
Decode_Lenient(body) ==
    LET pastaType == DecodeString(body.pasta_type, ZeroRequest.PastaType)
        weightGrams == DecodeInt(body.weight_grams, ZeroRequest.WeightGrams)
        pizzaType == DecodeString(body.pizza_type, ZeroRequest.PizzaType)
        pizzaSizeInch == DecodeInt(body.pizza_size_inch, ZeroRequest.PizzaSizeInch)
    IN  [err |-> ~body.wellFormed,
         req |-> [PastaType |-> pastaType.v, WeightGrams |-> weightGrams.v,
                  PizzaType |-> pizzaType.v, PizzaSizeInch |-> pizzaSizeInch.v]]

\* json.NewDecoder(r.Body).Decode(&req): a body that is no JSON object, or a
\* field of the wrong JSON type, is an error; keys OrderRequest has no field
\* for are skipped
Decode(body) ==
    LET pastaType == DecodeString(body.pasta_type, ZeroRequest.PastaType)
        weightGrams == DecodeInt(body.weight_grams, ZeroRequest.WeightGrams)
        pizzaType == DecodeString(body.pizza_type, ZeroRequest.PizzaType)
        pizzaSizeInch == DecodeInt(body.pizza_size_inch, ZeroRequest.PizzaSizeInch)
    IN  [err |-> \/ ~body.wellFormed
                 \/ ~pastaType.ok \/ ~weightGrams.ok
                 \/ ~pizzaType.ok \/ ~pizzaSizeInch.ok,
         req |-> [PastaType |-> pastaType.v, WeightGrams |-> weightGrams.v,
                  PizzaType |-> pizzaType.v, PizzaSizeInch |-> pizzaSizeInch.v]]

\* the keys json.Encoder writes for an OrderResponse: those tagged omitempty
\* are left out when the field has its zero value
EncodedKeys(resp) ==
    {"order_id", "pasta_type", "weight_grams", "price", "status"}
    \cup (IF resp.PizzaType # "" THEN {"pizza_type"} ELSE {})
    \cup (IF resp.PizzaSizeInch # 0 THEN {"pizza_size_inch"} ELSE {})
    \cup (IF resp.PizzaPrice # 0 THEN {"pizza_price"} ELSE {})

\* json.NewEncoder(w).Encode(resp): the JSON object written
Encode(resp) ==
    [k \in EncodedKeys(resp) |->
        CASE k = "order_id" -> JStr(resp.OrderID)
          [] k = "pasta_type" -> JStr(resp.PastaType)
          [] k = "weight_grams" -> JNum(resp.WeightGrams)
          [] k = "price" -> JNum(resp.Price)
          [] k = "status" -> JStr(resp.Status)
          [] k = "pizza_type" -> JStr(resp.PizzaType)
          [] k = "pizza_size_inch" -> JNum(resp.PizzaSizeInch)
          [] k = "pizza_price" -> JNum(resp.PizzaPrice)]

\* the field of the JSON object obj under key k, Absent if it has none
Field(obj, k) == IF k \in DOMAIN obj THEN obj[k] ELSE Absent

\* json.Unmarshal(body, &resp) of a client reading the response
Unmarshal(obj) ==
    [OrderID |-> DecodeString(Field(obj, "order_id"), "").v,
     PastaType |-> DecodeString(Field(obj, "pasta_type"), "").v,
     WeightGrams |-> DecodeInt(Field(obj, "weight_grams"), 0).v,
     Price |-> DecodeInt(Field(obj, "price"), 0).v,
     Status |-> DecodeString(Field(obj, "status"), "").v,
     PizzaType |-> DecodeString(Field(obj, "pizza_type"), "").v,
     PizzaSizeInch |-> DecodeInt(Field(obj, "pizza_size_inch"), 0).v,
     PizzaPrice |-> DecodeInt(Field(obj, "pizza_price"), 0).v]

---------------------------------------------------------------------------
(* api: http.ResponseWriter                                                *)

\* the response before anything is written: no status, no header, no body
NoResponse == [code |-> 0, contentType |-> "", body |-> [none |-> TRUE], writes |-> 0]

\* mutant: the message is written without the newline
HttpError_NoNewline(w, msg, code) ==
    [code |-> IF w.code = 0 THEN code ELSE w.code,
     contentType |-> "text/plain; charset=utf-8",
     body |-> [text |-> msg],
     writes |-> w.writes + 1]

\* http.Error(w, msg, code): a plain-text body, msg and a newline
HttpError(w, msg, code) ==
    [code |-> IF w.code = 0 THEN code ELSE w.code,
     contentType |-> "text/plain; charset=utf-8",
     body |-> [text |-> msg \o "\n"],
     writes |-> w.writes + 1]

\* w.Header().Set("Content-Type", "application/json") and Encode(resp): the
\* first write sends status 200
WriteJSON(w, resp) ==
    [code |-> IF w.code = 0 THEN StatusOK ELSE w.code,
     contentType |-> "application/json",
     body |-> [json |-> Encode(resp)],
     writes |-> w.writes + 1]

---------------------------------------------------------------------------
(* api: CreateOrder                                                        *)

\* the invocations of CreateOrder
Handlers == 1..NumHandlers

\* an invocation of CreateOrder about to read the request body; invoked and
\* reads are its history: the line modules it has called and the clock
\* readings time.Now() has returned to it
HandlerStart(body) ==
    [pc |-> "decode", body |-> body, req |-> ZeroRequest, resp |-> ZeroResponse,
     totalPrice |-> 0, id |-> "",
     pastaOrder |-> NilOrder, pastaPrice |-> 0,
     pizzaOrder |-> NilOrder, pizzaPrice |-> 0,
     w |-> NoResponse,
     invoked |-> <<>>, reads |-> <<>>]

\* mutant: resp.Price is not set from the pasta line
PastaFill_NoPrice(resp, pastaOrder, pastaPrice) ==
    [resp EXCEPT !.OrderID = pastaOrder.ID,
                 !.PastaType = pastaOrder.PastaType,
                 !.WeightGrams = pastaOrder.WeightGrams,
                 !.Status = pastaOrder.Status]

\* mutant: resp.OrderID is not set from the pasta line
PastaFill_NoOrderID(resp, pastaOrder, pastaPrice) ==
    [resp EXCEPT !.PastaType = pastaOrder.PastaType,
                 !.WeightGrams = pastaOrder.WeightGrams,
                 !.Price = pastaPrice,
                 !.Status = pastaOrder.Status]

\* lines 49-53: the fields of the response taken from the pasta line
PastaFill(resp, pastaOrder, pastaPrice) ==
    [resp EXCEPT !.OrderID = pastaOrder.ID,
                 !.PastaType = pastaOrder.PastaType,
                 !.WeightGrams = pastaOrder.WeightGrams,
                 !.Price = pastaPrice,
                 !.Status = pastaOrder.Status]

\* mutant: a pizza line adopted as the order also sets resp.Price
PizzaFill_SetsPrice(resp, pizzaOrder, pizzaPrice) ==
    LET adopted == IF resp.OrderID = ""
                   THEN [resp EXCEPT !.OrderID = pizzaOrder.ID,
                                     !.Status = pizzaOrder.Status,
                                     !.Price = pizzaPrice]
                   ELSE resp
    IN  [adopted EXCEPT !.PizzaType = pizzaOrder.PizzaType,
                        !.PizzaSizeInch = pizzaOrder.SizeInch,
                        !.PizzaPrice = pizzaPrice]

\* mutant: an adopted pizza line gives its identifier but not its status
PizzaFill_NoStatus(resp, pizzaOrder, pizzaPrice) ==
    LET adopted == IF resp.OrderID = ""
                   THEN [resp EXCEPT !.OrderID = pizzaOrder.ID]
                   ELSE resp
    IN  [adopted EXCEPT !.PizzaType = pizzaOrder.PizzaType,
                        !.PizzaSizeInch = pizzaOrder.SizeInch,
                        !.PizzaPrice = pizzaPrice]

\* mutant: the pizza line's identifier and status always replace the pasta line's
PizzaFill_AlwaysAdopts(resp, pizzaOrder, pizzaPrice) ==
    [resp EXCEPT !.OrderID = pizzaOrder.ID,
                 !.Status = pizzaOrder.Status,
                 !.PizzaType = pizzaOrder.PizzaType,
                 !.PizzaSizeInch = pizzaOrder.SizeInch,
                 !.PizzaPrice = pizzaPrice]

\* mutant: the response carries the identifier of the line made last
PizzaFill_LatestID(resp, pizzaOrder, pizzaPrice) ==
    LET adopted == IF resp.OrderID = ""
                   THEN [resp EXCEPT !.Status = pizzaOrder.Status]
                   ELSE resp
    IN  [adopted EXCEPT !.OrderID = pizzaOrder.ID,
                        !.PizzaType = pizzaOrder.PizzaType,
                        !.PizzaSizeInch = pizzaOrder.SizeInch,
                        !.PizzaPrice = pizzaPrice]

\* lines 66-72: the fields of the response taken from the pizza line; its
\* identifier and status only when no pasta line set them
PizzaFill(resp, pizzaOrder, pizzaPrice) ==
    LET adopted == IF resp.OrderID = ""
                   THEN [resp EXCEPT !.OrderID = pizzaOrder.ID,
                                     !.Status = pizzaOrder.Status]
                   ELSE resp
    IN  [adopted EXCEPT !.PizzaType = pizzaOrder.PizzaType,
                        !.PizzaSizeInch = pizzaOrder.SizeInch,
                        !.PizzaPrice = pizzaPrice]

\* mutant: the price is never replaced by the total
TotalFill_Never(resp, totalPrice) == resp

\* mutant: with both lines the price is that of the line filled last
TotalFill_LastLine(resp, totalPrice) ==
    IF resp.PastaType # "" /\ resp.PizzaType # ""
    THEN [resp EXCEPT !.Price = resp.PizzaPrice]
    ELSE resp

\* lines 80-82: with both lines in the response, its price is the total
TotalFill(resp, totalPrice) ==
    IF resp.PastaType # "" /\ resp.PizzaType # ""
    THEN [resp EXCEPT !.Price = totalPrice]
    ELSE resp

\* lines 30-37: decode the body; an error ends the invocation
HandlerDecode(p) ==
    /\ handler[p].pc = "decode"
    /\ LET h == handler[p]
           d == Decode(h.body)
       IN  handler' =
               [handler EXCEPT ![p] =
                   IF d.err
                   THEN [h EXCEPT !.pc = "done",
                                  !.w = HttpError(h.w, "Invalid request body",
                                                  StatusBadRequest)]
                   ELSE [h EXCEPT !.pc = "pasta", !.req = d.req]]
    /\ UNCHANGED <<clock, call>>

\* mutant: a pasta line that fails validation is skipped, not answered
HandlerPasta_ErrorIgnored(p) ==
    /\ handler[p].pc = "pasta"
    /\ LET h == handler[p]
           err == PastaNewOrderErr(h.req.PastaType, h.req.WeightGrams)
       IN  handler' =
               [handler EXCEPT ![p] =
                   IF h.req.PastaType = ""
                   THEN [h EXCEPT !.pc = "pizza"]
                   ELSE IF err # NilErr
                   THEN [h EXCEPT !.pc = "pizza",
                                  !.invoked = Append(h.invoked, "pasta")]
                   ELSE [h EXCEPT !.pc = "pastaStamp",
                                  !.invoked = Append(h.invoked, "pasta"),
                                  !.reads = Append(h.reads, clock),
                                  !.id = PastaGenerateOrderID(clock)]]
    /\ UNCHANGED <<clock, call>>

\* mutant: a weight alone also requests a pasta line
HandlerPasta_WeightRequests(p) ==
    /\ handler[p].pc = "pasta"
    /\ LET h == handler[p]
           err == PastaNewOrderErr(h.req.PastaType, h.req.WeightGrams)
       IN  handler' =
               [handler EXCEPT ![p] =
                   IF h.req.PastaType = "" /\ h.req.WeightGrams = 0
                   THEN [h EXCEPT !.pc = "pizza"]
                   ELSE IF err # NilErr
                   THEN [h EXCEPT !.pc = "done",
                                  !.invoked = Append(h.invoked, "pasta"),
                                  !.w = HttpError(h.w, err.msg, StatusBadRequest)]
                   ELSE [h EXCEPT !.pc = "pastaStamp",
                                  !.invoked = Append(h.invoked, "pasta"),
                                  !.reads = Append(h.reads, clock),
                                  !.id = PastaGenerateOrderID(clock)]]
    /\ UNCHANGED <<clock, call>>

\* lines 39-44: pasta.NewOrder up to generateOrderID(), when a pasta type is given
HandlerPasta(p) ==
    /\ handler[p].pc = "pasta"
    /\ LET h == handler[p]
           err == PastaNewOrderErr(h.req.PastaType, h.req.WeightGrams)
       IN  handler' =
               [handler EXCEPT ![p] =
                   IF h.req.PastaType = ""
                   THEN [h EXCEPT !.pc = "pizza"]
                   ELSE IF err # NilErr
                   THEN [h EXCEPT !.pc = "done",
                                  !.invoked = Append(h.invoked, "pasta"),
                                  !.w = HttpError(h.w, err.msg, StatusBadRequest)]
                   ELSE [h EXCEPT !.pc = "pastaStamp",
                                  !.invoked = Append(h.invoked, "pasta"),
                                  !.reads = Append(h.reads, clock),
                                  !.id = PastaGenerateOrderID(clock)]]
    /\ UNCHANGED <<clock, call>>

\* mutant: resp is one variable of the package, shared by the invocations
HandlerPastaReturn_SharedResp(p) ==
    /\ handler[p].pc = "pastaStamp"
    /\ LET h == handler[p]
           pastaOrder == PastaNewOrder(h.id, h.req.PastaType, h.req.WeightGrams, clock)
           pastaPrice == PastaCalculatePrice(pastaOrder)
       IN  handler' =
               [handler EXCEPT ![p] =
                   [h EXCEPT
                       !.pc = "pizza",
                       !.id = "",
                       !.reads = Append(h.reads, clock),
                       !.pastaOrder = pastaOrder,
                       !.pastaPrice = pastaPrice,
                       !.totalPrice = FAdd(h.totalPrice, pastaPrice),
                       !.resp = PastaFill(handler[1].resp, pastaOrder, pastaPrice)]]
    /\ UNCHANGED <<clock, call>>

\* lines 40-53: pasta.NewOrder returns the order; price it and fill the response
HandlerPastaReturn(p) ==
    /\ handler[p].pc = "pastaStamp"
    /\ LET h == handler[p]
           pastaOrder == PastaNewOrder(h.id, h.req.PastaType, h.req.WeightGrams, clock)
           pastaPrice == PastaCalculatePrice(pastaOrder)
       IN  handler' =
               [handler EXCEPT ![p] =
                   [h EXCEPT
                       !.pc = "pizza",
                       !.id = "",
                       !.reads = Append(h.reads, clock),
                       !.pastaOrder = pastaOrder,
                       !.pastaPrice = pastaPrice,
                       !.totalPrice = FAdd(h.totalPrice, pastaPrice),
                       !.resp = PastaFill(h.resp, pastaOrder, pastaPrice)]]
    /\ UNCHANGED <<clock, call>>

\* mutant: a pizza line that fails validation leaves the pasta line answered
HandlerPizza_PartialSuccess(p) ==
    /\ handler[p].pc = "pizza"
    /\ LET h == handler[p]
           err == PizzaNewOrderErr(h.req.PizzaType, h.req.PizzaSizeInch)
       IN  handler' =
               [handler EXCEPT ![p] =
                   IF h.req.PizzaType = ""
                   THEN [h EXCEPT !.pc = "respond"]
                   ELSE IF err # NilErr
                   THEN [h EXCEPT !.pc = "respond",
                                  !.invoked = Append(h.invoked, "pizza")]
                   ELSE [h EXCEPT !.pc = "pizzaStamp",
                                  !.invoked = Append(h.invoked, "pizza"),
                                  !.reads = Append(h.reads, clock),
                                  !.id = PizzaGenerateOrderID(clock)]]
    /\ UNCHANGED <<clock, call>>

\* lines 56-61: pizza.NewOrder up to generateOrderID(), when a pizza type is given
HandlerPizza(p) ==
    /\ handler[p].pc = "pizza"
    /\ LET h == handler[p]
           err == PizzaNewOrderErr(h.req.PizzaType, h.req.PizzaSizeInch)
       IN  handler' =
               [handler EXCEPT ![p] =
                   IF h.req.PizzaType = ""
                   THEN [h EXCEPT !.pc = "respond"]
                   ELSE IF err # NilErr
                   THEN [h EXCEPT !.pc = "done",
                                  !.invoked = Append(h.invoked, "pizza"),
                                  !.w = HttpError(h.w, err.msg, StatusBadRequest)]
                   ELSE [h EXCEPT !.pc = "pizzaStamp",
                                  !.invoked = Append(h.invoked, "pizza"),
                                  !.reads = Append(h.reads, clock),
                                  !.id = PizzaGenerateOrderID(clock)]]
    /\ UNCHANGED <<clock, call>>

\* lines 57-73: pizza.NewOrder returns the order; price it and fill the response
HandlerPizzaReturn(p) ==
    /\ handler[p].pc = "pizzaStamp"
    /\ LET h == handler[p]
           pizzaOrder == PizzaNewOrder(h.id, h.req.PizzaType, h.req.PizzaSizeInch, clock)
           pizzaPrice == PizzaCalculatePrice(pizzaOrder)
       IN  handler' =
               [handler EXCEPT ![p] =
                   [h EXCEPT
                       !.pc = "respond",
                       !.id = "",
                       !.reads = Append(h.reads, clock),
                       !.pizzaOrder = pizzaOrder,
                       !.pizzaPrice = pizzaPrice,
                       !.totalPrice = FAdd(h.totalPrice, pizzaPrice),
                       !.resp = PizzaFill(h.resp, pizzaOrder, pizzaPrice)]]
    /\ UNCHANGED <<clock, call>>

\* mutant: an order counts as empty when it has no pasta line
HandlerRespond_ChecksPastaType(p) ==
    /\ handler[p].pc = "respond"
    /\ LET h == handler[p]
           resp == TotalFill(h.resp, h.totalPrice)
       IN  handler' =
               [handler EXCEPT ![p] =
                   IF h.resp.PastaType = ""
                   THEN [h EXCEPT
                            !.pc = "done",
                            !.w = HttpError(h.w,
                                            "Order must include at least pasta or pizza",
                                            StatusBadRequest)]
                   ELSE [h EXCEPT !.pc = "done", !.resp = resp,
                                  !.w = WriteJSON(h.w, resp)]]
    /\ UNCHANGED <<clock, call>>

\* mutant: the return after the error of an empty order is missing
HandlerRespond_MissingReturn(p) ==
    /\ handler[p].pc = "respond"
    /\ LET h == handler[p]
           resp == TotalFill(h.resp, h.totalPrice)
           refused == HttpError(h.w, "Order must include at least pasta or pizza",
                                StatusBadRequest)
       IN  handler' =
               [handler EXCEPT ![p] =
                   [h EXCEPT !.pc = "done", !.resp = resp,
                             !.w = WriteJSON(IF h.resp.OrderID = "" THEN refused ELSE h.w,
                                             resp)]]
    /\ UNCHANGED <<clock, call>>

\* lines 75-85: refuse an order with no line, else total the price and respond
HandlerRespond(p) ==
    /\ handler[p].pc = "respond"
    /\ LET h == handler[p]
           resp == TotalFill(h.resp, h.totalPrice)
       IN  handler' =
               [handler EXCEPT ![p] =
                   IF h.resp.OrderID = ""
                   THEN [h EXCEPT
                            !.pc = "done",
                            !.w = HttpError(h.w,
                                            "Order must include at least pasta or pizza",
                                            StatusBadRequest)]
                   ELSE [h EXCEPT !.pc = "done", !.resp = resp,
                                  !.w = WriteJSON(h.w, resp)]]
    /\ UNCHANGED <<clock, call>>

\* the request bodies: each field missing, null, of the wrong JSON type or of
\* its own type; with or without a key OrderRequest has no field for; and a
\* body that is no JSON object
HandlerWeights == Around(MinWeightGrams, MaxWeightGrams) \cup {-100, 300, 400}
HandlerSizes == Around(MinSizeInch, MaxSizeInch) \cup {-1, 12, 14}

Bodies ==
    [wellFormed : {TRUE},
     pasta_type : {Absent, JNull, JNum(1)} \cup {JStr(k) : k \in PastaTypeInputs},
     weight_grams : {Absent, JNull, JStr("300")} \cup {JNum(n) : n \in HandlerWeights},
     pizza_type : {Absent, JNull, JNum(1)} \cup {JStr(k) : k \in PizzaTypeInputs},
     pizza_size_inch : {Absent, JNull, JStr("12")} \cup {JNum(n) : n \in HandlerSizes},
     extra : BOOLEAN]
    \cup
    [wellFormed : {FALSE}, pasta_type : {Absent}, weight_grams : {Absent},
     pizza_type : {Absent}, pizza_size_inch : {Absent}, extra : {FALSE}]

\* one invocation of CreateOrder, on any request body
Init ==
    /\ clock = 0
    /\ call = CallIdle
    /\ \E body \in Bodies :
          handler = [p \in Handlers |->
                        IF p = 1 THEN HandlerStart(body) ELSE HandlerUnused]

Next ==
    \/ Tick
    \/ \E p \in Handlers :
          \/ HandlerDecode(p)
          \/ HandlerPasta(p)
          \/ HandlerPastaReturn(p)
          \/ HandlerPizza(p)
          \/ HandlerPizzaReturn(p)
          \/ HandlerRespond(p)

Spec == Init /\ [][Next]_vars

\* the request bodies of concurrent invocations: both lines, each line alone,
\* a failing line before a valid one, no line, and a body that does not decode
RequestOf(pastaType, weightGrams, pizzaType, pizzaSizeInch) ==
    [wellFormed |-> TRUE, pasta_type |-> pastaType, weight_grams |-> weightGrams,
     pizza_type |-> pizzaType, pizza_size_inch |-> pizzaSizeInch, extra |-> FALSE]

ConcurrentBodies ==
    {RequestOf(JStr(Penne), JNum(400), JStr(Pepperoni), JNum(14)),
     RequestOf(JStr(Fettuccine), JNum(300), Absent, Absent),
     RequestOf(Absent, Absent, JStr(Margherita), JNum(12)),
     RequestOf(JStr(Spaghetti), JNum(99), JStr(Margherita), JNum(12)),
     RequestOf(JStr(Spaghetti), JNum(300), JStr(Hawaiian), JNum(12)),
     RequestOf(Absent, Absent, Absent, Absent),
     RequestOf(JStr(Penne), JStr("300"), Absent, Absent)}

\* every invocation of CreateOrder running at once, each on its own request
InitConc ==
    /\ clock = 0
    /\ call = CallIdle
    /\ handler \in [Handlers -> {HandlerStart(body) : body \in ConcurrentBodies}]

SpecConc == InitConc /\ [][Next]_vars

\* one step of invocation p
HandlerStep(p) ==
    \/ HandlerDecode(p)
    \/ HandlerPasta(p)
    \/ HandlerPastaReturn(p)
    \/ HandlerPizza(p)
    \/ HandlerPizzaReturn(p)
    \/ HandlerRespond(p)

\* net/http serves each request in its own goroutine and CreateOrder never
\* blocks or loops: an invocation that can take a step takes it in the end
SpecFair == Spec /\ \A p \in Handlers : WF_vars(HandlerStep(p))

---------------------------------------------------------------------------
(* Properties of the line modules, checked under SpecLine                  *)

\* a call of pasta.NewOrder has returned
PastaReturned == call.fn = "pasta.NewOrder" /\ call.pc = "done"
\* a call of pizza.NewOrder has returned
PizzaReturned == call.fn = "pizza.NewOrder" /\ call.pc = "done"
\* the client holds a pizza order, made by pizza.NewOrder or as a literal
PizzaHeld ==
    /\ call.fn \in {"pizza.NewOrder", "pizza.Order{}"}
    /\ call.pc = "done"
    /\ call.order # NilOrder

\* C1: pasta.NewOrder(kind, weightGrams) succeeds if and only if
\* 100 <= weightGrams <= 5000 and kind is spaghetti, penne or fettuccine; every
\* other pair of arguments returns an error and no order.
C1_PastaNewOrderAccepts ==
    PastaReturned =>
        LET valid == /\ 100 <= call.quantity
                     /\ call.quantity <= 5000
                     /\ call.kind \in {"spaghetti", "penne", "fettuccine"}
        IN  /\ valid => (call.err = NilErr /\ call.order # NilOrder)
            /\ ~valid => (call.err # NilErr /\ call.order = NilOrder)

\* C1 witness: the upper limit 5000 is accepted
C1_Witness ==
    /\ PastaReturned
    /\ call.quantity = 5000
    /\ call.err = NilErr
    /\ call.order # NilOrder

\* C2: a failing pasta.NewOrder reports "minimum order is 100 grams" exactly
\* when weightGrams < 100, "maximum order is 5000 grams" exactly when
\* weightGrams > 5000, and "invalid pasta type" when the weight is in range and
\* the kind is not in the enumeration; exactly one of the three applies.
C2_PastaNewOrderMessages ==
    (PastaReturned /\ call.err # NilErr) =>
        LET below == call.quantity < 100
            above == call.quantity > 5000
            badKind == /\ ~below /\ ~above
                       /\ call.kind \notin {"spaghetti", "penne", "fettuccine"}
        IN  /\ (call.err.msg = "minimum order is 100 grams") <=> below
            /\ (call.err.msg = "maximum order is 5000 grams") <=> above
            /\ (call.err.msg = "invalid pasta type") <=> badKind
            /\ Cardinality({b \in {1, 2, 3} :
                              \/ b = 1 /\ below
                              \/ b = 2 /\ above
                              \/ b = 3 /\ badKind}) = 1

\* C2 witness: an out-of-range weight with an invalid kind reports the weight
C2_Witness ==
    /\ PastaReturned
    /\ call.quantity = 5001
    /\ call.kind = "lasagna"
    /\ call.err = NewError("maximum order is 5000 grams")

\* C3: the price of an order made by pasta.NewOrder is weightGrams * 0.01,
\* times 1.2 if and only if the kind is fettuccine (in thousandths: 10 a gram,
\* 12 a gram for fettuccine), so spaghetti and penne of one weight cost the same.
C3_PastaPrice ==
    (PastaReturned /\ call.price # NoValue) =>
        /\ call.order.PastaType = "fettuccine"
              => call.price.v = call.order.WeightGrams * 12
        /\ call.order.PastaType # "fettuccine"
              => call.price.v = call.order.WeightGrams * 10
        /\ call.order.PastaType \in {"spaghetti", "penne", "fettuccine"}

\* C3 witness: 1000 g of fettuccine cost 12.0
C3_Witness ==
    /\ PastaReturned
    /\ call.order # NilOrder
    /\ call.order.PastaType = "fettuccine"
    /\ call.order.WeightGrams = 1000
    /\ call.price = Value(12000)

\* C4: pizza.NewOrder(kind, sizeInch) succeeds if and only if 8 <= sizeInch <= 24
\* and kind is margherita or pepperoni; hawaiian with a size in range fails
\* with "invalid pizza type".
C4_PizzaNewOrderAccepts ==
    PizzaReturned =>
        LET inRange == 8 <= call.quantity /\ call.quantity <= 24
            valid == inRange /\ call.kind \in {"margherita", "pepperoni"}
        IN  /\ valid => (call.err = NilErr /\ call.order # NilOrder)
            /\ ~valid => (call.err # NilErr /\ call.order = NilOrder)
            /\ (inRange /\ call.kind = "hawaiian")
                  => call.err = NewError("invalid pizza type")

\* C4 witness: a 12 inch hawaiian is refused as an invalid type
C4_Witness ==
    /\ PizzaReturned
    /\ call.kind = "hawaiian"
    /\ call.quantity = 12
    /\ call.err = NewError("invalid pizza type")
    /\ call.order = NilOrder

C6_PizzaPrice ==
    (PizzaHeld /\ call.price # NoValue) =>
        call.price.v =
            CASE call.order.PizzaType = "pepperoni" -> call.order.SizeInch * 1200
              [] call.order.PizzaType = "hawaiian" -> call.order.SizeInch * 1300
              [] OTHER -> call.order.SizeInch * 1000

\* C6 witness: a 12 inch hawaiian record costs 15.6
C6_Witness ==
    /\ PizzaHeld
    /\ call.order.PizzaType = "hawaiian"
    /\ call.order.SizeInch = 12
    /\ call.price = Value(15600)

C8_CreationFields ==
    /\ (PastaReturned /\ call.err = NilErr) =>
          /\ call.order.Status = "pending"
          /\ call.order.PastaType = call.kind
          /\ call.order.WeightGrams = call.quantity
          /\ ~IsZero(call.order.CreatedAt)
          /\ call.order.ID # ""
          /\ Len(call.order.ID) = 14
    /\ (PizzaReturned /\ call.err = NilErr) =>
          /\ call.order.Status = "pending"
          /\ call.order.PizzaType = call.kind
          /\ call.order.SizeInch = call.quantity
          /\ ~IsZero(call.order.CreatedAt)
          /\ call.order.ID # ""
          /\ Len(call.order.ID) = 14

\* C8 witness: a pasta order made across the turn of the hour
C8_Witness ==
    /\ PastaReturned
    /\ call.err = NilErr
    /\ call.order.PastaType = "penne"
    /\ call.order.WeightGrams = 300
    /\ call.order.ID = "20250326100000"
    /\ call.order.Status = "pending"

---------------------------------------------------------------------------
(* Properties of CreateOrder, checked under Spec                           *)

\* invocation p has returned
Returned(p) == handler[p].pc = "done"
\* invocation p has responded 200 with a JSON body
Succeeded(p) ==
    /\ Returned(p)
    /\ handler[p].w.code = 200
    /\ "json" \in DOMAIN handler[p].w.body
\* the response of invocation p as its client decodes it
ResponseOf(p) == Unmarshal(handler[p].w.body.json)
\* the body of invocation p is a JSON object that decodes into OrderRequest
WellFormed(p) == handler[p].pc # "unused" /\ ~Decode(handler[p].body).err
\* the body of invocation p gives no pizza kind: missing, null or ""
NoPizzaKind(p) == handler[p].body.pizza_type \in {Absent, JNull, JStr("")}
\* the body of invocation p gives a valid pasta line
ValidPastaLine(p) ==
    /\ handler[p].body.pasta_type.t = "string"
    /\ handler[p].body.pasta_type.v \in {"spaghetti", "penne", "fettuccine"}
    /\ handler[p].body.weight_grams.t = "number"
    /\ handler[p].body.weight_grams.v >= 100
    /\ handler[p].body.weight_grams.v <= 5000

\* C9: a request (a body that decodes into OrderRequest) with a valid pasta
\* line and no pizza kind gets a 200 response whose order_id and status are
\* the pasta line's, whose pasta_type and weight_grams echo the request, whose
\* price is the pasta line's price, and whose pizza_type, pizza_size_inch and
\* pizza_price are omitted and read as empty and zero.
C9_PastaOnlyResponse ==
    \A p \in Handlers :
        (Returned(p) /\ WellFormed(p) /\ ValidPastaLine(p) /\ NoPizzaKind(p)) =>
            /\ Succeeded(p)
            /\ handler[p].w.contentType = "application/json"
            /\ LET r == ResponseOf(p)
                   h == handler[p]
               IN  /\ h.pastaOrder # NilOrder
                   /\ r.OrderID = h.pastaOrder.ID
                   /\ r.OrderID # ""
                   /\ r.Status = h.pastaOrder.Status
                   /\ r.PastaType = h.body.pasta_type.v
                   /\ r.WeightGrams = h.body.weight_grams.v
                   /\ r.Price = h.pastaPrice
                   /\ r.Price = h.body.weight_grams.v
                                 * (IF h.body.pasta_type.v = "fettuccine" THEN 12 ELSE 10)
                   /\ r.PizzaType = ""
                   /\ r.PizzaSizeInch = 0
                   /\ r.PizzaPrice = 0
                   /\ DOMAIN h.w.body.json =
                          {"order_id", "pasta_type", "weight_grams", "price", "status"}

\* C9 witness: {pasta_type: "spaghetti", weight_grams: 300} is answered 200
\* with price 3.0
C9_Witness ==
    /\ Succeeded(1)
    /\ handler[1].body.pasta_type = JStr("spaghetti")
    /\ handler[1].body.weight_grams = JNum(300)
    /\ handler[1].body.pizza_type = JNull
    /\ ResponseOf(1).PastaType = "spaghetti"
    /\ ResponseOf(1).Price = 3000
    /\ ResponseOf(1).Status = "pending"

\* invocation p succeeded having created the pasta line only
PastaOnly(p) ==
    /\ Succeeded(p)
    /\ handler[p].pastaOrder # NilOrder
    /\ handler[p].pizzaOrder = NilOrder
\* invocation p succeeded having created the pizza line only
PizzaOnly(p) ==
    /\ Succeeded(p)
    /\ handler[p].pastaOrder = NilOrder
    /\ handler[p].pizzaOrder # NilOrder

\* C10 as claimed: when exactly one line is created by a successful request,
\* the price field of the response is that line's price.
C10_SingleLinePriceAsClaimed ==
    \A p \in Handlers :
        /\ PastaOnly(p) => ResponseOf(p).Price = handler[p].pastaPrice
        /\ PizzaOnly(p) => ResponseOf(p).Price = handler[p].pizzaPrice

\* C10 amended: when exactly one line is created by a successful request, the
\* price field of the response is the pasta line's price if that line is the
\* pasta line; if it is the pizza line, price is 0 and the line's price is in
\* pizza_price.
C10_SingleLinePrice ==
    \A p \in Handlers :
        /\ PastaOnly(p) =>
              /\ ResponseOf(p).Price = handler[p].pastaPrice
              /\ ResponseOf(p).Price > 0
        /\ PizzaOnly(p) =>
              /\ ResponseOf(p).Price = 0
              /\ ResponseOf(p).PizzaPrice = handler[p].pizzaPrice
              /\ ResponseOf(p).PizzaPrice > 0

\* C10 witness: {pizza_type: "margherita", pizza_size_inch: 12} is answered 200
\* with pizza_price 12.0 and price 0
C10_Witness ==
    /\ PizzaOnly(1)
    /\ handler[1].body.pizza_type = JStr("margherita")
    /\ handler[1].body.pizza_size_inch = JNum(12)
    /\ ResponseOf(1).PizzaPrice = 12000
    /\ ResponseOf(1).Price = 0

\* invocation p succeeded having created both lines
BothLines(p) ==
    /\ Succeeded(p)
    /\ handler[p].pastaOrder # NilOrder
    /\ handler[p].pizzaOrder # NilOrder

\* C11: in a successful response the price field is non-zero only when a
\* pasta line was created; a pizza-only request yields pizza_price equal to the
\* pizza line's price, order_id and status adopted from the pizza line, and
\* price, pasta_type and weight_grams at their zero values.
C11_PizzaOnlyResponse ==
    \A p \in Handlers :
        Succeeded(p) =>
            LET r == ResponseOf(p)
                h == handler[p]
            IN  /\ r.Price # 0 => h.pastaOrder # NilOrder
                /\ PizzaOnly(p) =>
                      /\ r.PizzaPrice = h.pizzaPrice
                      /\ r.PizzaPrice = h.pizzaOrder.SizeInch
                            * (IF h.pizzaOrder.PizzaType = "pepperoni" THEN 1200 ELSE 1000)
                      /\ r.OrderID = h.pizzaOrder.ID
                      /\ r.OrderID # ""
                      /\ r.Status = h.pizzaOrder.Status
                      /\ r.Status = "pending"
                      /\ r.Price = 0
                      /\ r.PastaType = ""
                      /\ r.WeightGrams = 0

\* C11 witness: a pizza-only request with a stray weight_grams is answered
\* with the pizza line's identifier and price 0, weight_grams 0
C11_Witness ==
    /\ PizzaOnly(1)
    /\ handler[1].body.pasta_type = Absent
    /\ handler[1].body.weight_grams = JNum(300)
    /\ handler[1].body.pizza_type = JStr("pepperoni")
    /\ handler[1].body.pizza_size_inch = JNum(14)
    /\ ResponseOf(1).PizzaPrice = 16800
    /\ ResponseOf(1).Price = 0
    /\ ResponseOf(1).WeightGrams = 0
    /\ ResponseOf(1).OrderID = handler[1].pizzaOrder.ID

\* C12: when both lines are created, the price of the response is the pasta
\* line's price plus the pizza line's price, and pizza_price is the pizza
\* line's own price.
C12_CombinedPrice ==
    \A p \in Handlers :
        BothLines(p) =>
            LET r == ResponseOf(p)
                h == handler[p]
                pasta == h.pastaOrder.WeightGrams
                           * (IF h.pastaOrder.PastaType = "fettuccine" THEN 12 ELSE 10)
                pizza == h.pizzaOrder.SizeInch
                           * (IF h.pizzaOrder.PizzaType = "pepperoni" THEN 1200 ELSE 1000)
            IN  /\ r.Price = h.pastaPrice + h.pizzaPrice
                /\ r.Price = pasta + pizza
                /\ r.PizzaPrice = h.pizzaPrice
                /\ r.PizzaPrice = pizza

\* C12 witness: penne 400 g with pepperoni 14 in costs 4.0 + 16.8 = 20.8
C12_Witness ==
    /\ BothLines(1)
    /\ handler[1].body.pasta_type = JStr("penne")
    /\ handler[1].body.weight_grams = JNum(400)
    /\ handler[1].body.pizza_type = JStr("pepperoni")
    /\ handler[1].body.pizza_size_inch = JNum(14)
    /\ ResponseOf(1).Price = 20800
    /\ ResponseOf(1).PizzaPrice = 16800

\* C13: when both lines are created, order_id and status of the response are
\* the pasta line's, and order_id is not the pizza line's whenever the clock
\* second changed between the two creations.
C13_PastaPrecedence ==
    \A p \in Handlers :
        BothLines(p) =>
            LET r == ResponseOf(p)
                h == handler[p]
            IN  /\ r.OrderID = h.pastaOrder.ID
                /\ r.Status = h.pastaOrder.Status
                /\ h.pastaOrder.ID # h.pizzaOrder.ID => r.OrderID # h.pizzaOrder.ID

\* C13 witness: the pasta line is made at 09:59:59, the pizza line at 10:00:00,
\* and the response carries the pasta line's identifier
C13_Witness ==
    /\ BothLines(1)
    /\ handler[1].pastaOrder.ID = "20250326095959"
    /\ handler[1].pizzaOrder.ID = "20250326100000"
    /\ ResponseOf(1).OrderID = "20250326095959"

\* the kind a JSON field provides: none when it is missing, null or ""
KindOf(j) == IF j.t = "string" THEN j.v ELSE ""

\* the number a JSON field provides: 0 when it is missing or null
NumberOf(j) == IF j.t = "number" THEN j.v ELSE 0

\* the body cannot be decoded into an OrderRequest: it is no JSON object, or
\* one of the four fields has a value of the wrong JSON type
Undecodable(body) ==
    \/ ~body.wellFormed
    \/ body.pasta_type.t = "number"
    \/ body.weight_grams.t = "string"
    \/ body.pizza_type.t = "number"
    \/ body.pizza_size_inch.t = "string"

\* the error pasta.NewOrder and pizza.NewOrder give on the fields of the body
PastaErrOf(body) == PastaNewOrderErr(KindOf(body.pasta_type), NumberOf(body.weight_grams))
PizzaErrOf(body) == PizzaNewOrderErr(KindOf(body.pizza_type), NumberOf(body.pizza_size_inch))

\* the response of a failure with message msg
Failure(msg) ==
    [code |-> 400, contentType |-> "text/plain; charset=utf-8",
     body |-> [text |-> msg \o "\n"], writes |-> 1]

\* C14: a well-formed request providing neither pasta_type nor pizza_type
\* (missing, null or "") is answered 400 "Order must include at least pasta or
\* pizza", and no other request is answered so.
C14_NeitherLine ==
    \A p \in Handlers :
        Returned(p) =>
            LET h == handler[p]
                neither == /\ ~Undecodable(h.body)
                           /\ KindOf(h.body.pasta_type) = ""
                           /\ KindOf(h.body.pizza_type) = ""
                refused == /\ h.w.code = 400
                           /\ h.w.body = [text |-> "Order must include at least pasta or pizza\n"]
            IN  neither <=> refused

\* C14 witness: a body with a null pasta_type, an empty pizza_type and both
\* quantities valid is refused as an order with no line
C14_Witness ==
    /\ Returned(1)
    /\ handler[1].body.pasta_type = JNull
    /\ handler[1].body.pizza_type = JStr("")
    /\ handler[1].body.weight_grams = JNum(300)
    /\ handler[1].body.pizza_size_inch = JNum(12)
    /\ handler[1].w = Failure("Order must include at least pasta or pizza")

\* C15: when a pasta kind is present and the pasta line fails validation, the
\* request ends with 400 and pasta.NewOrder's message, pizza.NewOrder is never
\* invoked, and the response depends on the pasta fields only.
C15_PastaFailureAborts ==
    \A p \in Handlers :
        LET h == handler[p]
        IN  (/\ h.pc # "unused"
             /\ ~Undecodable(h.body)
             /\ KindOf(h.body.pasta_type) # ""
             /\ PastaErrOf(h.body) # NilErr)
            => /\ "pizza" \notin {h.invoked[i] : i \in DOMAIN h.invoked}
               /\ h.pizzaOrder = NilOrder
               /\ Returned(p) =>
                     /\ h.w = Failure(PastaErrOf(h.body).msg)
                     /\ h.invoked = <<"pasta">>

\* C15 witness: penne of 99 g with a valid margherita of 12 in is answered
\* with the pasta message, pizza.NewOrder not invoked
C15_Witness ==
    /\ Returned(1)
    /\ handler[1].body.pasta_type = JStr("penne")
    /\ handler[1].body.weight_grams = JNum(99)
    /\ handler[1].body.pizza_type = JStr("margherita")
    /\ handler[1].body.pizza_size_inch = JNum(12)
    /\ handler[1].w = Failure("minimum order is 100 grams")
    /\ handler[1].invoked = <<"pasta">>

\* invocation p returned after a valid pasta line and an invalid pizza line
PastaThenPizzaFailure(p) ==
    /\ Returned(p)
    /\ ~Undecodable(handler[p].body)
    /\ KindOf(handler[p].body.pasta_type) # ""
    /\ PastaErrOf(handler[p].body) = NilErr
    /\ KindOf(handler[p].body.pizza_type) # ""
    /\ PizzaErrOf(handler[p].body) # NilErr

\* C16 as claimed: after a valid pasta line and an invalid pizza line the body
\* of the 400 response equals pizza.NewOrder's message.
C16_PizzaFailureBodyAsClaimed ==
    \A p \in Handlers :
        PastaThenPizzaFailure(p) =>
            /\ handler[p].w.code = 400
            /\ "text" \in DOMAIN handler[p].w.body
            /\ handler[p].w.body.text = PizzaErrOf(handler[p].body).msg

\* C16: after a valid pasta line and an invalid pizza line the request ends
\* with 400 and a body equal to pizza.NewOrder's message followed by one
\* newline; no field of the pasta line already created is in the response.
C16_PizzaFailureBody ==
    \A p \in Handlers :
        PastaThenPizzaFailure(p) =>
            LET h == handler[p]
            IN  /\ h.pastaOrder # NilOrder
                /\ h.w.code = 400
                /\ h.w.body = [text |-> PizzaErrOf(h.body).msg \o "\n"]
                /\ h.w.writes = 1
                /\ DOMAIN h.w.body = {"text"}

\* C16 witness: spaghetti of 500 g was created, the pizza of -1 in refused
C16_Witness ==
    /\ PastaThenPizzaFailure(1)
    /\ handler[1].body.pasta_type = JStr("spaghetti")
    /\ handler[1].body.pizza_type = JStr("margherita")
    /\ handler[1].body.pizza_size_inch = JNum(-1)
    /\ handler[1].pastaOrder # NilOrder
    /\ handler[1].pastaOrder.ID # ""
    /\ handler[1].w = Failure("minimum size is 8 inches")

\* C17: a body that cannot be decoded into the request shape is answered 400
\* "Invalid request body", and no line module is invoked for it at any time.
C17_InvalidBody ==
    \A p \in Handlers :
        (handler[p].pc # "unused" /\ Undecodable(handler[p].body)) =>
            /\ handler[p].invoked = <<>>
            /\ handler[p].reads = <<>>
            /\ handler[p].pc \in {"decode", "done"}
            /\ Returned(p) => handler[p].w = Failure("Invalid request body")

\* C17 witness: a JSON object whose weight_grams is a string, with an
\* otherwise valid pasta line, is answered as an invalid body
C17_Witness ==
    /\ Returned(1)
    /\ handler[1].body.wellFormed
    /\ handler[1].body.pasta_type = JStr("spaghetti")
    /\ handler[1].body.weight_grams = JStr("300")
    /\ handler[1].w = Failure("Invalid request body")
    /\ handler[1].invoked = <<>>

\* the message the request of invocation p fails with; "" when it succeeds
Trigger(p) ==
    LET body == handler[p].body
        pasta == KindOf(body.pasta_type) # ""
        pizza == KindOf(body.pizza_type) # ""
    IN  CASE Undecodable(body) -> "Invalid request body"
          [] OTHER ->
             IF pasta /\ PastaErrOf(body) # NilErr THEN PastaErrOf(body).msg
             ELSE IF pizza /\ PizzaErrOf(body) # NilErr THEN PizzaErrOf(body).msg
             ELSE IF ~pasta /\ ~pizza THEN "Order must include at least pasta or pizza"
             ELSE ""

\* C18: every failure of CreateOrder is status 400 with a body that is the
\* triggering message followed by one newline, every success is status 200
\* with Content-Type application/json, and no other status is answered.
C18_StatusAndBody ==
    \A p \in Handlers :
        Returned(p) =>
            LET w == handler[p].w
            IN  /\ w.code \in {200, 400}
                /\ w.code = 400 <=> Trigger(p) # ""
                /\ w.code = 400 => w.body = [text |-> Trigger(p) \o "\n"]
                /\ w.code = 200 => /\ w.contentType = "application/json"
                                   /\ DOMAIN w.body = {"json"}

\* C18 witness: a calzone is refused with status 400 and a body that is the
\* message and one more character, the newline
C18_Witness ==
    /\ Returned(1)
    /\ handler[1].body.pasta_type = Absent
    /\ handler[1].body.pizza_type = JStr("calzone")
    /\ handler[1].body.pizza_size_inch = JNum(12)
    /\ handler[1].w.code = 400
    /\ handler[1].w.body = [text |-> "invalid pizza type\n"]
    /\ Len(handler[1].w.body.text) = Len("invalid pizza type") + 1

\* the terminal outcomes the response of invocation p shows
OutcomesOf(p) ==
    LET w == handler[p].w
        lineMessages == {"minimum order is 100 grams", "maximum order is 5000 grams",
                         "invalid pasta type", "minimum size is 8 inches",
                         "maximum size is 24 inches", "invalid pizza type"}
    IN  (IF w.code = 400 /\ w.body = [text |-> "Invalid request body\n"]
         THEN {"malformed input"} ELSE {})
        \cup (IF w.code = 400 /\ w.body \in {[text |-> m \o "\n"] : m \in lineMessages}
              THEN {"validation failure"} ELSE {})
        \cup (IF w.code = 400
                 /\ w.body = [text |-> "Order must include at least pasta or pizza\n"]
              THEN {"missing both lines"} ELSE {})
        \cup (IF w.code = 200 /\ DOMAIN w.body = {"json"}
              THEN {"success"} ELSE {})

\* C19: every invocation of CreateOrder returns, having written exactly one
\* response that shows exactly one terminal outcome; until it returns it has
\* written nothing, and it never writes a second response.
C19_OneOutcome ==
    /\ [](\A p \in Handlers :
            handler[p].pc # "unused" =>
                /\ Returned(p) => /\ handler[p].w.writes = 1
                                  /\ Cardinality(OutcomesOf(p)) = 1
                /\ ~Returned(p) => handler[p].w = NoResponse)
    /\ [][\A p \in Handlers : Returned(p) => handler'[p] = handler[p]]_vars
    /\ <>(\A p \in Handlers : handler[p].pc # "unused" => Returned(p))

\* C19 witness: an invocation that went through both line modules has
\* returned with one response written
C19_Witness ==
    /\ Returned(1)
    /\ handler[1].invoked = <<"pasta", "pizza">>
    /\ Len(handler[1].reads) = 4
    /\ handler[1].w.writes = 1
    /\ OutcomesOf(1) = {"success"}

\* CreateOrder run from its first statement to its return on the request body,
\* time.Now() returning the readings of reads in turn: the response written
RunAlone(body, reads) ==
    LET d == Decode(body)
        req == d.req
        pasta == req.PastaType # ""
        pizza == req.PizzaType # ""
        pastaErr == PastaNewOrderErr(req.PastaType, req.WeightGrams)
        pizzaErr == PizzaNewOrderErr(req.PizzaType, req.PizzaSizeInch)
        first == IF pasta THEN 2 ELSE 0
        pastaOrder == PastaNewOrder(PastaGenerateOrderID(reads[1]), req.PastaType,
                                    req.WeightGrams, reads[2])
        pastaPrice == PastaCalculatePrice(pastaOrder)
        pizzaOrder == PizzaNewOrder(PizzaGenerateOrderID(reads[first + 1]), req.PizzaType,
                                    req.PizzaSizeInch, reads[first + 2])
        pizzaPrice == PizzaCalculatePrice(pizzaOrder)
        afterPasta == IF pasta THEN PastaFill(ZeroResponse, pastaOrder, pastaPrice)
                      ELSE ZeroResponse
        afterPizza == IF pizza THEN PizzaFill(afterPasta, pizzaOrder, pizzaPrice)
                      ELSE afterPasta
        totalPrice == FAdd(IF pasta THEN pastaPrice ELSE 0,
                           IF pizza THEN pizzaPrice ELSE 0)
    IN  IF d.err
        THEN HttpError(NoResponse, "Invalid request body", StatusBadRequest)
        ELSE IF pasta /\ pastaErr # NilErr
        THEN HttpError(NoResponse, pastaErr.msg, StatusBadRequest)
        ELSE IF pizza /\ pizzaErr # NilErr
        THEN HttpError(NoResponse, pizzaErr.msg, StatusBadRequest)
        ELSE IF afterPizza.OrderID = ""
        THEN HttpError(NoResponse, "Order must include at least pasta or pizza",
                       StatusBadRequest)
        ELSE WriteJSON(NoResponse, TotalFill(afterPizza, totalPrice))

\* C20: with every invocation of CreateOrder running at once under any
\* interleaving, the response of each is the one it gives running alone on
\* its request with its clock readings, and a step of one invocation leaves
\* every other invocation's state as it was.
C20_Independent ==
    /\ [](\A p \in Handlers :
            Returned(p) => handler[p].w = RunAlone(handler[p].body, handler[p].reads))
    /\ [][\A p, q \in Handlers :
            (p # q /\ handler'[p] # handler[p]) => handler'[q] = handler[q]]_vars

\* C20 witness: two invocations interleaved, the second creating its pizza
\* line between the first's two line creations and in another second, have each
\* returned the response of a run alone
C20_Witness ==
    /\ Succeeded(1) /\ Succeeded(2)
    /\ handler[1].invoked = <<"pasta", "pizza">>
    /\ handler[2].invoked = <<"pizza">>
    /\ Len(handler[1].reads) = 4 /\ Len(handler[2].reads) = 2
    /\ handler[1].reads[2] < handler[2].reads[1]
    /\ handler[2].reads[2] < handler[1].reads[3]
    /\ ResponseOf(1).OrderID = "20250326095958"
    /\ ResponseOf(2).OrderID = "20250326095959"
    /\ handler[1].pizzaOrder.ID = "20250326100000"
    /\ handler[1].w = RunAlone(handler[1].body, handler[1].reads)
    /\ handler[2].w = RunAlone(handler[2].body, handler[2].reads)

---------------------------------------------------------------------------
(* Properties of the line items of concurrent invocations, under SpecConc  *)

\* the line items invocation p has created: the product line, the order, and
\* the clock reading generateOrderID() took for it
LineItems(p) ==
    LET h == handler[p]
        pasta == h.pastaOrder # NilOrder
    IN  (IF pasta
         THEN {[line |-> "pasta", by |-> p, order |-> h.pastaOrder, read |-> h.reads[1]]}
         ELSE {})
        \cup
        (IF h.pizzaOrder # NilOrder
         THEN {[line |-> "pizza", by |-> p, order |-> h.pizzaOrder,
                read |-> h.reads[IF pasta THEN 3 ELSE 1]]}
         ELSE {})

AllLineItems == UNION {LineItems(p) : p \in Handlers}

---------------------------------------------------------------------------
(* Further properties of CreateOrder, checked under Spec                   *)

\* the request body with its null pizza fields and its unknown keys left out
OmitNullPizza(body) ==
    [body EXCEPT !.pizza_type = IF @ = JNull THEN Absent ELSE @,
                 !.pizza_size_inch = IF @ = JNull THEN Absent ELSE @,
                 !.extra = FALSE]

\* C22: a request with null pizza fields or with unknown extra fields gets
\* the response the same request gets with those fields left out; a valid
\* pasta line with null pizza fields gets a 200 pasta-only response, with
\* pizza_type empty and pizza_size_inch zero.
C22_NullAndExtraIgnored ==
    \A p \in Handlers :
        (Returned(p) /\ OmitNullPizza(handler[p].body) # handler[p].body) =>
            LET h == handler[p]
            IN  /\ h.w = RunAlone(OmitNullPizza(h.body), h.reads)
                /\ (/\ ValidPastaLine(p)
                     /\ h.body.pizza_type = JNull
                     /\ h.body.pizza_size_inch = JNull)
                    => /\ Succeeded(p)
                       /\ DOMAIN h.w.body.json =
                              {"order_id", "pasta_type", "weight_grams", "price", "status"}
                       /\ ResponseOf(p).OrderID = h.pastaOrder.ID
                       /\ ResponseOf(p).PizzaType = ""
                       /\ ResponseOf(p).PizzaSizeInch = 0
                       /\ h.invoked = <<"pasta">>

\* C22 witness: spaghetti of 300 g with both pizza fields null and an unknown
\* key is answered as a pasta-only order
C22_Witness ==
    /\ Succeeded(1)
    /\ handler[1].body.pasta_type = JStr("spaghetti")
    /\ handler[1].body.weight_grams = JNum(300)
    /\ handler[1].body.pizza_type = JNull
    /\ handler[1].body.pizza_size_inch = JNull
    /\ handler[1].body.extra
    /\ ResponseOf(1).Price = 3000
    /\ ResponseOf(1).PizzaType = ""
    /\ ResponseOf(1).PizzaSizeInch = 0

\* the response of invocation p is that of the check for an order with no line
RefusedAsEmpty(p) ==
    /\ Returned(p)
    /\ handler[p].w = Failure("Order must include at least pasta or pizza")

\* C23: every 200 response has a non-empty order_id and status "pending";
\* where the check for an order with no line is reached, order_id is still
\* empty exactly when no line module was invoked, and the check answers only
\* invocations that invoked none.
C23_OrderIdentified ==
    \A p \in Handlers :
        LET h == handler[p]
        IN  /\ Succeeded(p) =>
                  /\ ResponseOf(p).OrderID # ""
                  /\ Len(ResponseOf(p).OrderID) = 14
                  /\ ResponseOf(p).Status = "pending"
                  /\ h.invoked # <<>>
            /\ h.pc = "respond" => (h.resp.OrderID = "" <=> h.invoked = <<>>)
            /\ RefusedAsEmpty(p) => h.invoked = <<>>
            /\ (Returned(p) /\ ~Undecodable(h.body))
                  => (RefusedAsEmpty(p) <=> h.invoked = <<>>)

\* C23 witness: an invocation that invoked a line module stands at the check
\* with the order_id of its pizza line
C23_Witness ==
    /\ handler[1].pc = "respond"
    /\ handler[1].invoked = <<"pizza">>
    /\ handler[1].resp.OrderID = handler[1].pizzaOrder.ID
    /\ Len(handler[1].resp.OrderID) = 14
    /\ handler[1].resp.Status = "pending"

\* the request body without the quantities that come with no kind
OmitStrayQuantities(body) ==
    [body EXCEPT
        !.weight_grams = IF KindOf(body.pasta_type) = "" THEN Absent ELSE @,
        !.pizza_size_inch = IF KindOf(body.pizza_type) = "" THEN Absent ELSE @]

\* the line modules invocation p has called
Invoked(p) == {handler[p].invoked[i] : i \in DOMAIN handler[p].invoked}

\* C24: a line is requested by its kind field alone. For a request that
\* decodes, pasta.NewOrder is called exactly when pasta_type is non-empty and
\* pizza.NewOrder only when pizza_type is; a quantity without its kind changes
\* nothing in the response: only quantities, valid or not, are refused as an
\* order with no line, and a pizza-only order with a stray weight_grams has
\* weight_grams 0.
C24_KindDecides ==
    \A p \in Handlers :
        (Returned(p) /\ ~Undecodable(handler[p].body)) =>
            LET h == handler[p]
                pasta == KindOf(h.body.pasta_type) # ""
                pizza == KindOf(h.body.pizza_type) # ""
            IN  /\ "pasta" \in Invoked(p) <=> pasta
                /\ "pizza" \in Invoked(p) => pizza
                /\ (pizza /\ ~pasta) => "pizza" \in Invoked(p)
                /\ h.w = RunAlone(OmitStrayQuantities(h.body), h.reads)
                /\ (~pasta /\ ~pizza) => RefusedAsEmpty(p)
                /\ (Succeeded(p) /\ ~pasta) => ResponseOf(p).WeightGrams = 0
                /\ (Succeeded(p) /\ ~pizza) => ResponseOf(p).PizzaSizeInch = 0

\* C24 witness: a weight below the minimum and a negative size, with no kind,
\* are not validated: the request is refused as an order with no line
C24_Witness ==
    /\ RefusedAsEmpty(1)
    /\ handler[1].body.pasta_type = Absent
    /\ handler[1].body.weight_grams = JNum(99)
    /\ handler[1].body.pizza_type = JStr("")
    /\ handler[1].body.pizza_size_inch = JNum(-1)
    /\ handler[1].invoked = <<>>

---------------------------------------------------------------------------
(* Further properties of the line modules, checked under SpecLine          *)

\* C25: both NewOrder functions check the quantity limits before the kind: a
\* call with a quantity out of range and an invalid kind returns the minimum
\* or the maximum error, never the invalid-kind error.
C25_QuantityBeforeKind ==
    /\ (PastaReturned /\ call.kind \notin {"spaghetti", "penne", "fettuccine"}) =>
          /\ call.quantity < 100 => call.err = NewError("minimum order is 100 grams")
          /\ call.quantity > 5000 => call.err = NewError("maximum order is 5000 grams")
          /\ (call.quantity < 100 \/ call.quantity > 5000) => call.order = NilOrder
    /\ (PizzaReturned /\ call.kind \notin {"margherita", "pepperoni"}) =>
          /\ call.quantity < 8 => call.err = NewError("minimum size is 8 inches")
          /\ call.quantity > 24 => call.err = NewError("maximum size is 24 inches")
          /\ (call.quantity < 8 \/ call.quantity > 24) => call.order = NilOrder

\* C25 witness: lasagna of 5001 g is refused for its weight
C25_Witness ==
    /\ PastaReturned
    /\ call.kind = "lasagna"
    /\ call.quantity = 5001
    /\ call.err = NewError("maximum order is 5000 grams")

---------------------------------------------------------------------------
(* Properties of the orders CreateOrder holds, checked under Spec          *)

\* C26: no pizza order pizza.NewOrder returns to CreateOrder is hawaiian: its
\* cringe level is 0, its price is sizeInch or sizeInch * 1.2 and never
\* sizeInch * 1.3, and every pizza_price of a response is pizza_size_inch or
\* pizza_size_inch * 1.2.
C26_NoHawaiianOrder ==
    \A p \in Handlers :
        LET h == handler[p]
            o == h.pizzaOrder
        IN  /\ (h.pc # "unused" /\ o # NilOrder) =>
                  /\ o.PizzaType # "hawaiian"
                  /\ o.PizzaType \in {"margherita", "pepperoni"}
                  /\ CalculateCringeLevel(o) = 0
                  /\ PizzaCalculatePrice(o) \in {o.SizeInch * 1000, o.SizeInch * 1200}
                  /\ h.pizzaPrice = PizzaCalculatePrice(o)
                  /\ h.pizzaPrice # o.SizeInch * 1300
            /\ (Returned(p) /\ ~Undecodable(h.body)
                 /\ KindOf(h.body.pizza_type) = "hawaiian") => ~Succeeded(p)
            /\ (Succeeded(p) /\ "pizza_price" \in DOMAIN h.w.body.json) =>
                  ResponseOf(p).PizzaPrice \in {ResponseOf(p).PizzaSizeInch * 1000,
                                                ResponseOf(p).PizzaSizeInch * 1200}

\* C26 witness: a pepperoni of 24 in is answered with pizza_price 28.8, and
\* its order has cringe level 0
C26_Witness ==
    /\ Succeeded(1)
    /\ handler[1].pizzaOrder # NilOrder
    /\ handler[1].pizzaOrder.PizzaType = "pepperoni"
    /\ handler[1].pizzaOrder.SizeInch = 24
    /\ CalculateCringeLevel(handler[1].pizzaOrder) = 0
    /\ ResponseOf(1).PizzaPrice = 28800

\* C27: in a 200 response price is positive when a pasta line is present and
\* pizza_price is positive when a pizza line is present; with both lines
\* price exceeds pizza_price and the pasta line's price; price is between 1.0
\* and 60.0 for a pasta-only order and between 9.0 and 88.8 for a combined
\* one.
C27_PriceRanges ==
    \A p \in Handlers :
        Succeeded(p) =>
            LET r == ResponseOf(p)
                h == handler[p]
            IN  /\ h.pastaOrder # NilOrder => r.Price > 0
                /\ h.pizzaOrder # NilOrder => r.PizzaPrice > 0
                /\ BothLines(p) => /\ r.Price > r.PizzaPrice
                                   /\ r.Price > h.pastaPrice
                                   /\ r.Price >= 9000 /\ r.Price <= 88800
                /\ PastaOnly(p) => (r.Price >= 1000 /\ r.Price <= 60000)

\* C27 witness: fettuccine of 5000 g with a pepperoni of 24 in reaches the
\* upper end, 60.0 + 28.8 = 88.8
C27_Witness ==
    /\ BothLines(1)
    /\ handler[1].pastaOrder.PastaType = "fettuccine"
    /\ handler[1].pastaOrder.WeightGrams = 5000
    /\ handler[1].pizzaOrder.PizzaType = "pepperoni"
    /\ handler[1].pizzaOrder.SizeInch = 24
    /\ handler[1].pastaPrice = 60000
    /\ ResponseOf(1).PizzaPrice = 28800
    /\ ResponseOf(1).Price = 88800

---------------------------------------------------------------------------
(* Properties of the line modules' methods, checked under SpecLine         *)

\* a step of the client is a call of CalculatePrice or CalculateCringeLevel
Calculates ==
    \/ PastaCallCalculatePrice
    \/ PizzaCallCalculatePrice
    \/ PizzaCallCalculateCringeLevel

\* C28: CalculatePrice (pasta and pizza) and CalculateCringeLevel leave the
\* order as it was (identifier, kind, quantity, status, createdAt), a
\* repeated call returns the value the call before returned, and the status
\* of an order NewOrder returned is "pending" after any number of them.
C28_MethodsArePure ==
    /\ [][Calculates =>
            /\ call'.order = call.order
            /\ call.price # NoValue => call'.price = call.price
            /\ call.cringe # NoValue => call'.cringe = call.cringe]_vars
    /\ []((call.pc = "done" /\ call.fn \in {"pasta.NewOrder", "pizza.NewOrder"}
            /\ call.order # NilOrder)
           => call.order.Status = "pending")

\* C28 witness: price and cringe level have both been computed on a pizza
\* order NewOrder returned, which is still pending
C28_Witness ==
    /\ PizzaReturned
    /\ call.order # NilOrder
    /\ call.order.PizzaType = "pepperoni"
    /\ call.order.SizeInch = 14
    /\ call.price = Value(16800)
    /\ call.cringe = Value(0)
    /\ call.order.Status = "pending"
    /\ call.order.ID = call.id

---------------------------------------------------------------------------
(* Properties of pairs of invocations, checked under SpecConc              *)

\* the body of a response with its order_id blanked
WithoutOrderID(body) ==
    IF "json" \in DOMAIN body
    THEN [json |-> [k \in DOMAIN body.json |->
                       IF k = "order_id" THEN JStr("") ELSE body.json[k]]]
    ELSE body

\* the clock second in which the invocation's first identifier was generated;
\* -1 when it has generated none
FirstSecond(p) ==
    IF handler[p].reads = <<>> THEN -1 ELSE SecondOf(Now(handler[p].reads[1]))

\* C29: two invocations with equal request bodies answer with the same status
\* code, the same Content-Type and the same body up to order_id, and with
\* identical bodies when the identifier of the response was generated in the
\* same clock second in both.
C29_FunctionOfBodyAndClock ==
    \A p, q \in Handlers :
        (Returned(p) /\ Returned(q) /\ handler[p].body = handler[q].body) =>
            /\ handler[p].w.code = handler[q].w.code
            /\ handler[p].w.contentType = handler[q].w.contentType
            /\ WithoutOrderID(handler[p].w.body) = WithoutOrderID(handler[q].w.body)
            /\ FirstSecond(p) = FirstSecond(q) => handler[p].w = handler[q].w

\* C29 witness: two invocations on the same combined order, the first made at
\* 09:59:58 and the second at 09:59:59, differ in order_id alone
C29_Witness ==
    /\ Succeeded(1) /\ Succeeded(2)
    /\ handler[1].body = handler[2].body
    /\ handler[1].invoked = <<"pasta", "pizza">>
    /\ ResponseOf(1).OrderID = "20250326095958"
    /\ ResponseOf(2).OrderID = "20250326095959"
    /\ handler[1].w.body # handler[2].w.body
    /\ WithoutOrderID(handler[1].w.body) = WithoutOrderID(handler[2].w.body)
    /\ ResponseOf(1).Price = 20800

---------------------------------------------------------------------------
(* Identifier and timestamp of an order, checked under SpecLine            *)

\* C30 as claimed: the identifier of every order NewOrder returns denotes the
\* clock second of its createdAt, wherever a clock tick falls between the
\* steps of NewOrder.
C30_IdentifierDenotesCreatedAt ==
    ((PastaReturned \/ PizzaReturned) /\ call.order # NilOrder) =>
        call.order.ID = Format(call.order.CreatedAt)

\* C30 divergence: generateOrderID() read the clock at 09:59:59 and time.Now()
\* read it after the tick to 10:00:00
C30_Divergence ==
    /\ PastaReturned
    /\ call.order # NilOrder
    /\ call.order.ID = "20250326095959"
    /\ Format(call.order.CreatedAt) = "20250326100000"

=============================================================================
